---- MODULE Spec2Model ----
(***************************************************************************)
(* The day-12 board game of src/main.rs: one Game behind a tokio Mutex,    *)
(* served by the handlers day_12_place, day_12_random_board, day_12_board  *)
(* and day_12_reset.                                                       *)
(*                                                                         *)
(* The Game is one record (board, winner, board_full, rng).  rng is the    *)
(* number of values drawn since the generator was seeded; the values the   *)
(* seed 2024 produces are a fixed sequence the source does not spell out,  *)
(* so it is the variable stream, chosen once in Init and never changed.    *)
(***************************************************************************)
EXTENDS Integers, Sequences, FiniteSets, TLC

VARIABLES
    game,      \* the Game inside Day12AppState.game
    stream,    \* which sequence of values StdRng::seed_from_u64(2024) yields
    resp,      \* status and exit point of the last response sent
    cycle,     \* "reset" right after a reset of a used game, "seeded" when a
               \* random-board request came next, "none" otherwise
    mutex,     \* the task holding the game lock, 0 when free
    pc,        \* per task: where it is in its handler
    req,       \* per task: the request it serves
    cur,       \* per task: the loop index of day_12_random_board
    serial,    \* the game obtained by running the completed requests one by one
    served     \* per task: requests completed

vars == <<game, stream, resp, cycle, mutex, pc, req, cur, serial, served>>

(***************************************************************************)
(* Bounds of the model.                                                    *)
(***************************************************************************)
\* accepted drops explored between two resets under Spec
MaxDrops == 4
\* random-board requests explored between two resets
MaxSeeds == 2
\* how far outside 1..4 a requested column may lie
ColMargin == 1
\* requests each concurrent task serves under SpecConc
MaxReqs == 1

(***************************************************************************)
(* GameItem and the board geometry.                                        *)
(***************************************************************************)
GameItem == {"Wall", "Empty", "Cookie", "Milk"}

NoWinner == "None"

Rows == 0..4

Cols == 0..5

SeedValue == 2024

\* Game::reset_board, applied to any board
reset_board(b) ==
    [i \in Rows |->
        [j \in Cols |->
            IF i = 4 THEN "Wall"
            ELSE IF j = 0 \/ j = 5 THEN "Wall"
            ELSE "Empty"]]

EmptyBoard == [i \in Rows |-> [j \in Cols |-> "Empty"]]

\* Game::new
GameNew ==
    [board |-> reset_board(EmptyBoard),
     winner |-> NoWinner,
     board_full |-> FALSE,
     rng |-> 0]

\* Game::reset without the last assignment: the generator is left where it is
reset_keeps_rng(g) ==
    [board |-> reset_board(g.board),
     winner |-> NoWinner,
     board_full |-> FALSE,
     rng |-> g.rng]

\* Game::reset without the call of reset_board
reset_keeps_board(g) ==
    [board |-> g.board,
     winner |-> NoWinner,
     board_full |-> FALSE,
     rng |-> 0]

\* Game::reset
reset(g) ==
    [board |-> reset_board(g.board),
     winner |-> NoWinner,
     board_full |-> FALSE,
     rng |-> 0]

\* Game::is_column_full finding no column full
is_column_full_never(g, column) == FALSE

\* Game::is_column_full
is_column_full(g, column) == g.board[0][column] # "Empty"

\* Game::is_finished looking at board_full alone
is_finished_full_only(g) == g.board_full

\* Game::is_finished
is_finished(g) == g.winner # NoWinner \/ g.board_full

SetMin(S) == CHOOSE x \in S : \A y \in S : x <= y

SetMax(S) == CHOOSE x \in S : \A y \in S : x >= y

\* the row check of Game::check_win without the test for Empty
RowHitsUnguarded(b) ==
    {i \in 0..3 : \A k \in 1..3 : b[i][k] = b[i][k + 1]}

\* the column check of Game::check_win without the test for Empty
ColHitsUnguarded(b) ==
    {j \in 1..4 : \A i \in 1..3 : b[i - 1][j] = b[i][j]}

\* the rows, columns and diagonals Game::check_win finds complete
RowHits(b) ==
    {i \in 0..3 : b[i][1] # "Empty" /\ \A k \in 1..3 : b[i][k] = b[i][k + 1]}

ColHits(b) ==
    {j \in 1..4 : b[0][j] # "Empty" /\ \A i \in 1..3 : b[i - 1][j] = b[i][j]}

DiagHit(b) ==
    b[0][1] # "Empty" /\ \A i \in 1..3 : b[i - 1][i] = b[i][i + 1]

AntiHit(b) ==
    b[0][4] # "Empty" /\ \A i \in 1..3 : b[i - 1][5 - i] = b[i][4 - i]

\* Game::check_win without the two diagonals
check_win_no_diagonals(g) ==
    LET b == g.board IN
    IF RowHits(b) # {} THEN [g EXCEPT !.winner = b[SetMin(RowHits(b))][1]]
    ELSE IF ColHits(b) # {} THEN [g EXCEPT !.winner = b[0][SetMin(ColHits(b))]]
    ELSE g

\* Game::check_win leaving a winner that is set as it is
check_win_keeps_first(g) ==
    LET b == g.board IN
    IF g.winner # NoWinner THEN g
    ELSE IF RowHits(b) # {} THEN [g EXCEPT !.winner = b[SetMin(RowHits(b))][1]]
    ELSE IF ColHits(b) # {} THEN [g EXCEPT !.winner = b[0][SetMin(ColHits(b))]]
    ELSE IF DiagHit(b) THEN [g EXCEPT !.winner = b[0][1]]
    ELSE IF AntiHit(b) THEN [g EXCEPT !.winner = b[0][4]]
    ELSE g

\* Game::check_win: rows, then columns, then the two diagonals; first hit wins
check_win(g) ==
    LET b == g.board IN
    IF RowHits(b) # {} THEN [g EXCEPT !.winner = b[SetMin(RowHits(b))][1]]
    ELSE IF ColHits(b) # {} THEN [g EXCEPT !.winner = b[0][SetMin(ColHits(b))]]
    ELSE IF DiagHit(b) THEN [g EXCEPT !.winner = b[0][1]]
    ELSE IF AntiHit(b) THEN [g EXCEPT !.winner = b[0][4]]
    ELSE g

\* the loop of Game::put_item run from row 0 downwards
drop_cell_from_top(g, item, column) ==
    LET empties == {i \in 0..3 : g.board[i][column] = "Empty"} IN
    IF empties = {} THEN g
    ELSE [g EXCEPT !.board[SetMin(empties)][column] = item]

\* the loop of Game::put_item: the first Empty cell from row 3 upwards
drop_cell(g, item, column) ==
    LET empties == {i \in 0..3 : g.board[i][column] = "Empty"} IN
    IF empties = {} THEN g
    ELSE [g EXCEPT !.board[SetMax(empties)][column] = item]

\* Game::put_item without its last statement
check_full_skipped(g) == g

\* the last statement of Game::put_item
check_full(g) ==
    [g EXCEPT !.board_full = \A j \in Cols : g.board[0][j] # "Empty"]

\* Game::put_item drawing a value from the generator
put_item_drawing(g, item, column) ==
    [check_full(check_win(drop_cell(g, item, column))) EXCEPT !.rng = @ + 1]

\* Game::put_item
put_item(g, item, column) == check_full(check_win(drop_cell(g, item, column)))

\* Game::put_random_item ending as Game::put_item does
put_random_item_checking_full(g, item, row, column) ==
    check_full(check_win([g EXCEPT !.board[row][column] = item]))

\* Game::put_random_item
put_random_item(g, item, row, column) ==
    check_win([g EXCEPT !.board[row][column] = item])

(***************************************************************************)
(* Game::print_board.  The four glyphs of the source are written as one    *)
(* ASCII character each: "#" wall, "." empty, "c" cookie, "m" milk.        *)
(***************************************************************************)
Glyph(item) ==
    CASE item = "Wall" -> "#"
      [] item = "Empty" -> "."
      [] item = "Cookie" -> "c"
      [] item = "Milk" -> "m"

\* Game::print_board testing board_full before winner
print_board_full_first(g) ==
    LET grid == [i \in 1..5 |-> [j \in 1..6 |-> Glyph(g.board[i - 1][j - 1])]] IN
    IF g.board_full THEN Append(grid, <<"No winner.">>)
    ELSE IF g.winner # NoWinner
    THEN IF g.winner \in {"Cookie", "Milk"}
         THEN Append(grid, <<Glyph(g.winner), " wins!">>)
         ELSE <<"unreachable">>
    ELSE grid

print_board(g) ==
    LET grid == [i \in 1..5 |-> [j \in 1..6 |-> Glyph(g.board[i - 1][j - 1])]] IN
    IF g.winner # NoWinner
    THEN IF g.winner \in {"Cookie", "Milk"}
         THEN Append(grid, <<Glyph(g.winner), " wins!">>)
         ELSE <<"unreachable">>
    ELSE IF g.board_full THEN Append(grid, <<"No winner.">>)
    ELSE grid

(***************************************************************************)
(* The generator.  The values of a stream come in blocks of 16, one block  *)
(* per random-board request; Blocks lists the blocks explored and stream s *)
(* yields the blocks s, s+1, ... in turn.                                  *)
(***************************************************************************)
C == TRUE

M == FALSE

Blocks ==
    << \* no complete line
       <<C, M, C, M,  M, C, M, C,  M, M, C, C,  C, C, M, M>>,
       \* row 0 complete (cookie), rows 2 complete (milk)
       <<C, C, C, C,  M, C, C, M,  M, M, M, M,  C, M, C, M>>,
       \* column 2 complete (milk) only
       <<C, M, C, M,  M, M, M, C,  C, M, C, C,  C, M, M, C>>,
       \* the diagonal (0,1)..(3,4) complete (cookie) only
       <<C, M, M, M,  M, C, M, C,  M, C, C, M,  C, M, M, C>>,
       \* the diagonal (0,4)..(3,1) complete (milk), column 4 complete (milk)
       <<C, C, M, M,  C, M, M, M,  C, M, C, M,  M, C, C, M>>,
       \* both diagonals complete: (0,4)..(3,1) (milk) with the 13th value,
       \* (0,1)..(3,4) (cookie) with the 16th
       <<C, M, C, M,  M, C, M, C,  C, M, C, M,  M, C, M, C>> >>

NumBlocks == Len(Blocks)

Streams == 1..NumBlocks

\* the k-th value (from 0) of stream s
StreamValue(s, k) == Blocks[((s - 1 + (k \div 16)) % NumBlocks) + 1][(k % 16) + 1]

\* rng.gen::<bool>(): the next value of the stream; the generator moves on by one
gen_bool(g) == StreamValue(stream, g.rng)

advance(g) == [g EXCEPT !.rng = g.rng + 1]

\* one iteration with the inner loop running over 0..4 instead of 1..5
random_step_from_column_0(g, k) ==
    LET team == IF gen_bool(g) THEN "Cookie" ELSE "Milk" IN
    put_random_item(advance(g), team, k \div 4, k % 4)

\* one iteration of the loops of day_12_random_board; k = 4 * i + (j - 1)
random_step(g, k) ==
    LET team == IF gen_bool(g) THEN "Cookie" ELSE "Milk" IN
    put_random_item(advance(g), team, k \div 4, (k % 4) + 1)

\* the loops left as soon as a winner is set
RECURSIVE random_loop_until_win(_, _)
random_loop_until_win(g, k) ==
    IF k = 16 \/ g.winner # NoWinner THEN g
    ELSE CHOOSE r \in {random_loop_until_win(h, k + 1) : h \in {random_step(g, k)}} : TRUE

\* the 16 iterations from the k-th on; h is the game after the k-th
RECURSIVE random_loop(_, _)
random_loop(g, k) ==
    IF k = 16 THEN g
    ELSE CHOOSE r \in {random_loop(h, k + 1) : h \in {random_step(g, k)}} : TRUE

(***************************************************************************)
(* The handlers, as functions from the game and the request to the game    *)
(* left behind and the response: its status and exit, the return statement *)
(* taken.  Every response but the two 400s carries print_board of the game *)
(* left behind as its body; the 400s carry an empty body.                  *)
(***************************************************************************)
TeamNames == {"cookie", "milk", "water"}

ColumnInputs == (1 - ColMargin)..(4 + ColMargin)

Response(g, status, exit) == [game |-> g, status |-> status, exit |-> exit]

Body(r) == IF r.status = 400 THEN <<>> ELSE print_board(r.game)

\* day_12_random_board
day_12_random_board(g) == Response(random_loop(g, 0), 200, "random")

\* the checks before the lock without the range check of the column
place_valid_team_only(team, column) == team \in {"cookie", "milk"}

\* the part of day_12_place that runs before the lock is taken
place_valid(team, column) == team \in {"cookie", "milk"} /\ column \in 1..4

place_item(team) == IF team = "cookie" THEN "Cookie" ELSE "Milk"

\* the two guards of day_12_place in the other order
place_locked_finished_first(g, team, column) ==
    IF is_finished(g) THEN Response(g, 503, "finished")
    ELSE IF is_column_full(g, column) THEN Response(g, 503, "column_full")
    ELSE Response(put_item(g, place_item(team), column), 200, "placed")

\* the part of day_12_place that runs under the lock
place_locked(g, team, column) ==
    IF is_column_full(g, column) THEN Response(g, 503, "column_full")
    ELSE IF is_finished(g) THEN Response(g, 503, "finished")
    ELSE Response(put_item(g, place_item(team), column), 200, "placed")

\* day_12_place
day_12_place(g, team, column) ==
    IF team \notin {"cookie", "milk"} THEN Response(g, 400, "bad_team")
    ELSE IF column \notin 1..4 THEN Response(g, 400, "bad_column")
    ELSE place_locked(g, team, column)

\* day_12_board
day_12_board(g) == Response(g, 200, "board")

\* day_12_reset
day_12_reset(g) == Response(reset(g), 200, "reset")

(***************************************************************************)
(* One client: each request is served from start to end.                   *)
(***************************************************************************)
Tasks == 1..2

NoResp == [status |-> 0, exit |-> "none"]

Sent(r) == [status |-> r.status, exit |-> r.exit]

PieceCount(b) ==
    Cardinality({p \in (0..3) \X (1..4) : b[p[1]][p[2]] \in {"Cookie", "Milk"}})

SeedsDone(g) == g.rng \div 16

Start(s) ==
    /\ game = GameNew
    /\ stream = s
    /\ resp = NoResp
    /\ cycle = "none"
    /\ mutex = 0
    /\ pc = [p \in Tasks |-> "idle"]
    /\ req = [p \in Tasks |-> <<"none">>]
    /\ cur = [p \in Tasks |-> 0]
    /\ serial = GameNew
    /\ served = [p \in Tasks |-> 0]

Init == \E s \in Streams : Start(s)

Serve(r) ==
    /\ game' = r.game
    /\ resp' = Sent(r)
    /\ serial' = r.game
    /\ UNCHANGED <<stream, mutex, pc, req, cur, served>>

Place(team, column) ==
    LET r == day_12_place(game, team, column) IN
    /\ Serve(r)
    /\ cycle' = IF r.exit = "placed" THEN "none" ELSE cycle

RandomBoard ==
    /\ SeedsDone(game) < MaxSeeds
    /\ Serve(day_12_random_board(game))
    /\ cycle' = IF cycle = "reset" THEN "seeded" ELSE "none"

Board ==
    /\ Serve(day_12_board(game))
    /\ UNCHANGED cycle

Reset ==
    /\ Serve(day_12_reset(game))
    /\ cycle' = IF game # GameNew \/ cycle = "reset" THEN "reset" ELSE "none"

\* the place requests that reach Game::put_item
Accepted(g, team, column) ==
    place_valid(team, column) /\ ~is_column_full(g, column) /\ ~is_finished(g)

\* the drops explored: no more than MaxDrops pieces dropped since the reset
WithinDrops(team, column) ==
    Accepted(game, team, column) => PieceCount(game.board) < MaxDrops

PlaceAny ==
    \E team \in TeamNames, column \in ColumnInputs :
        WithinDrops(team, column) /\ Place(team, column)

Next ==
    \/ PlaceAny
    \/ RandomBoard
    \/ Board
    \/ Reset

Spec == Init /\ [][Next]_vars

(***************************************************************************)
(* The drops alone, to any depth: every place request that is accepted,    *)
(* and reset.  The generator is not used.                                  *)
(***************************************************************************)
InitDrops == Start(1)

PlaceAccepted ==
    \E team \in TeamNames, column \in ColumnInputs :
        Accepted(game, team, column) /\ Place(team, column)

NextDrops ==
    \/ PlaceAccepted
    \/ Reset

SpecDrops == InitDrops /\ [][NextDrops]_vars

(***************************************************************************)
(* Several tasks.  A handler runs up to lock().await, waits for the lock,  *)
(* and then runs statement by statement while other tasks run too; the     *)
(* guard is dropped when the handler returns.  The tasks start on a game   *)
(* that earlier requests have left behind.                                 *)
(***************************************************************************)
\* the game after the drops of a sequence of <<team, column>> requests
RECURSIVE AfterDrops(_, _)
AfterDrops(g, drops) ==
    IF drops = <<>> THEN g
    ELSE AfterDrops(day_12_place(g, Head(drops)[1], Head(drops)[2]).game, Tail(drops))

Requests ==
    {<<"place", team, column>> : team \in TeamNames, column \in ColumnInputs}
        \cup {<<"random">>, <<"board">>, <<"reset">>}

\* the handler a request is routed to
Handle(g, r) ==
    CASE r[1] = "place" -> day_12_place(g, r[2], r[3])
      [] r[1] = "random" -> day_12_random_board(g)
      [] r[1] = "board" -> day_12_board(g)
      [] r[1] = "reset" -> day_12_reset(g)

\* games left behind by earlier requests: a new one, and those with three
\* and with four cookies in column 1
ThreeCookies == <<(<<"cookie", 1>>), (<<"cookie", 1>>), (<<"cookie", 1>>)>>

ConcStarts ==
    {GameNew,
     AfterDrops(GameNew, ThreeCookies),
     AfterDrops(GameNew, Append(ThreeCookies, <<"cookie", 1>>))}

InitConc ==
    /\ stream = 1
    /\ game \in ConcStarts
    /\ resp = NoResp
    /\ cycle = "none"
    /\ mutex = 0
    /\ pc = [p \in Tasks |-> "idle"]
    /\ req = [p \in Tasks |-> <<"none">>]
    /\ cur = [p \in Tasks |-> 0]
    /\ serial = game
    /\ served = [p \in Tasks |-> 0]

\* a lock that lets every caller in
can_lock_always(m) == TRUE

\* tokio's Mutex::lock completes only while nobody holds the lock
can_lock(m) == m = 0

\* a guard that the two 503 returns of day_12_place keep
drop_guard_not_on_503(p, exit) ==
    IF exit \in {"column_full", "finished"} THEN p ELSE 0

\* the MutexGuard is dropped at every return of a handler
drop_guard(p, exit) == 0

Receive(p, r) ==
    /\ pc[p] = "idle"
    /\ served[p] < MaxReqs
    /\ req' = [req EXCEPT ![p] = r]
    /\ IF r[1] = "place" /\ ~place_valid(r[2], r[3])
       THEN /\ resp' = Sent(day_12_place(game, r[2], r[3]))
            /\ served' = [served EXCEPT ![p] = @ + 1]
            /\ UNCHANGED pc
       ELSE /\ pc' = [pc EXCEPT ![p] = "wait"]
            /\ UNCHANGED <<resp, served>>
    /\ UNCHANGED <<game, stream, cycle, mutex, cur, serial>>

FirstStep(r) ==
    CASE r[1] = "place" -> "guards"
      [] r[1] = "random" -> "loop"
      [] r[1] = "board" -> "print"
      [] r[1] = "reset" -> "reset"

Acquire(p) ==
    /\ pc[p] = "wait"
    /\ can_lock(mutex)
    /\ mutex' = p
    /\ pc' = [pc EXCEPT ![p] = FirstStep(req[p])]
    /\ cur' = [cur EXCEPT ![p] = 0]
    /\ UNCHANGED <<game, stream, resp, cycle, req, serial, served>>

\* a return under the lock: the response goes out and the guard is dropped
Return(p, status, exit) ==
    /\ resp' = [status |-> status, exit |-> exit]
    /\ mutex' = drop_guard(p, exit)
    /\ pc' = [pc EXCEPT ![p] = "idle"]
    /\ served' = [served EXCEPT ![p] = @ + 1]
    /\ serial' = Handle(serial, req[p]).game
    /\ UNCHANGED <<stream, cycle, req, cur>>

\* the two guards of day_12_place
Guards(p) ==
    /\ pc[p] = "guards"
    /\ IF is_column_full(game, req[p][3])
       THEN Return(p, 503, "column_full") /\ UNCHANGED game
       ELSE IF is_finished(game)
       THEN Return(p, 503, "finished") /\ UNCHANGED game
       ELSE /\ pc' = [pc EXCEPT ![p] = "put_cell"]
            /\ UNCHANGED <<game, stream, resp, cycle, mutex, req, cur, serial, served>>

\* the three parts of Game::put_item
PutCell(p) ==
    /\ pc[p] = "put_cell"
    /\ game' = drop_cell(game, place_item(req[p][2]), req[p][3])
    /\ pc' = [pc EXCEPT ![p] = "check_win"]
    /\ UNCHANGED <<stream, resp, cycle, mutex, req, cur, serial, served>>

CheckWin(p) ==
    /\ pc[p] = "check_win"
    /\ game' = check_win(game)
    /\ pc' = [pc EXCEPT ![p] = "check_full"]
    /\ UNCHANGED <<stream, resp, cycle, mutex, req, cur, serial, served>>

CheckFull(p) ==
    /\ pc[p] = "check_full"
    /\ game' = check_full(game)
    /\ pc' = [pc EXCEPT ![p] = "print"]
    /\ UNCHANGED <<stream, resp, cycle, mutex, req, cur, serial, served>>

\* one iteration of the loops of day_12_random_board
Loop(p) ==
    /\ pc[p] = "loop"
    /\ game' = random_step(game, cur[p])
    /\ cur' = [cur EXCEPT ![p] = @ + 1]
    /\ pc' = [pc EXCEPT ![p] = IF cur[p] = 15 THEN "print" ELSE "loop"]
    /\ UNCHANGED <<stream, resp, cycle, mutex, req, serial, served>>

\* game.reset() in day_12_reset
DoReset(p) ==
    /\ pc[p] = "reset"
    /\ game' = reset(game)
    /\ pc' = [pc EXCEPT ![p] = "print"]
    /\ UNCHANGED <<stream, resp, cycle, mutex, req, cur, serial, served>>

ExitOf(r) ==
    CASE r[1] = "place" -> "placed"
      [] r[1] = "random" -> "random"
      [] r[1] = "board" -> "board"
      [] r[1] = "reset" -> "reset"

\* game.print_board() and the return of the 200 response
Respond(p) ==
    /\ pc[p] = "print"
    /\ Return(p, 200, ExitOf(req[p]))
    /\ UNCHANGED game

Step(p) ==
    \/ Guards(p)
    \/ PutCell(p)
    \/ CheckWin(p)
    \/ CheckFull(p)
    \/ Loop(p)
    \/ DoReset(p)
    \/ Respond(p)

\* the requests that can still be served: the generator has values left
Servable(r) == r[1] = "random" => SeedsDone(serial) + Cardinality({q \in Tasks : pc[q] # "idle" /\ req[q][1] = "random"}) < MaxSeeds

NextConc ==
    \E p \in Tasks :
        \/ \E r \in Requests : Servable(r) /\ Receive(p, r)
        \/ Acquire(p)
        \/ Step(p)

SpecConc == InitConc /\ [][NextConc]_vars

\* what a task does on its own once its request is in
Run(p) == Acquire(p) \/ Step(p)

\* tokio keeps polling every task that can run and wakes the tasks waiting
\* for its Mutex when the lock is released
SpecConcFair == SpecConc /\ \A p \in Tasks : WF_vars(Run(p))

(***************************************************************************)
(* What the claims speak of: the play field, its lines, the drop requests. *)
(***************************************************************************)
Players == {"Cookie", "Milk"}

PlayRows == 0..3

PlayCols == 1..4

Pieces == {"cookie", "milk"}

PieceOf(team) == IF team = "cookie" THEN "Cookie" ELSE "Milk"

\* the four rows, the four columns and the two diagonals of the play field
Lines ==
    {{<<i, j>> : j \in PlayCols} : i \in PlayRows}
        \cup {{<<i, j>> : i \in PlayRows} : j \in PlayCols}
        \cup {{<<i, i + 1>> : i \in PlayRows}, {<<i, 4 - i>> : i \in PlayRows}}

LineOf(b, p) == \E L \in Lines : \A c \in L : b[c[1]][c[2]] = p

Terminal(g) == g.winner # NoWinner \/ g.board_full

TopOccupied(g, column) == g.board[0][column] # "Empty"

Rejected(r, g) == r.status = 503 /\ r.game = g /\ Body(r) = print_board(g)

OtherPiece(team) == IF team = "cookie" THEN "milk" ELSE "cookie"

\* four drops into column c, alternating, starting with team
Alternating(team, c) ==
    <<(<<team, c>>), (<<OtherPiece(team), c>>), (<<team, c>>), (<<OtherPiece(team), c>>)>>

\* the item a generator value stands for in day_12_random_board
ItemOf(v) == IF v THEN "Cookie" ELSE "Milk"

\* the cell the generator value drawn at position d fills, d counted from 0
\* at the start of a random-board request
DrawnCell(s, first, i, j) == ItemOf(StreamValue(s, first + 4 * i + (j - 1)))

\* the last element of print_board's output when it is a status line
StatusLine(out) == IF Len(out) = 6 THEN out[6] ELSE <<>>

(***************************************************************************)
(* One client again, on a game that earlier requests have used: a game in  *)
(* progress, a game won before the board was full, a board filled without  *)
(* a complete line, and a board whose last free cell completed a line.     *)
(***************************************************************************)
\* 16 accepted drops that leave no complete line
DrawnDrops ==
    Alternating("cookie", 1) \o Alternating("cookie", 2)
        \o Alternating("milk", 3) \o Alternating("milk", 4)

\* 16 accepted drops, the last one completing column 4
LastDropWins ==
    Alternating("milk", 1) \o Alternating("milk", 2) \o Alternating("cookie", 3)
        \o <<(<<"cookie", 4>>), (<<"cookie", 4>>), (<<"cookie", 4>>), (<<"cookie", 4>>)>>

UsedStarts ==
    {AfterDrops(GameNew, ThreeCookies),
     AfterDrops(GameNew, Append(ThreeCookies, <<"cookie", 1>>)),
     AfterDrops(GameNew, DrawnDrops),
     AfterDrops(GameNew, LastDropWins)}

InitUsed ==
    \E s \in Streams :
        /\ stream = s
        /\ game \in UsedStarts
        /\ resp = NoResp
        /\ cycle = "none"
        /\ mutex = 0
        /\ pc = [p \in Tasks |-> "idle"]
        /\ req = [p \in Tasks |-> <<"none">>]
        /\ cur = [p \in Tasks |-> 0]
        /\ serial = game
        /\ served = [p \in Tasks |-> 0]

SpecUsed == InitUsed /\ [][Next]_vars

C2_ColumnFullRejected ==
    /\ \A team \in Pieces, column \in PlayCols :
           TopOccupied(game, column) =>
               LET r == day_12_place(game, team, column) IN
               r.exit = "column_full" /\ Rejected(r, game)
    /\ \A first \in Pieces, next \in Pieces, c \in PlayCols :
           LET g4 == AfterDrops(GameNew, Alternating(first, c))
               r == day_12_place(g4, next, c) IN
           /\ \A i \in PlayRows : g4.board[i][c] \in Players
           /\ r.exit = "column_full" /\ Rejected(r, g4)
    /\ resp.exit = "column_full" => \E column \in PlayCols : TopOccupied(game, column)

C2_Witness ==
    /\ \E first \in Pieces, c \in PlayCols :
           game = AfterDrops(GameNew, Alternating(first, c))
    /\ resp.exit = "column_full"

(***************************************************************************)
(* C3: an accepted drop of a piece into column c changes exactly one cell  *)
(* of the board: the Empty cell of column c with the largest row index     *)
(* among rows 0..3 becomes that piece.                                     *)
(***************************************************************************)
LowestEmpty(b, column) ==
    CHOOSE i \in PlayRows :
        b[i][column] = "Empty" /\ \A k \in PlayRows : b[k][column] = "Empty" => k <= i

C3_DropFillsLowestEmpty ==
    \A team \in Pieces, column \in PlayCols :
        LET r == day_12_place(game, team, column) IN
        r.status = 200 =>
            /\ \E i \in PlayRows : game.board[i][column] = "Empty"
            /\ r.game.board =
                   [game.board EXCEPT ![LowestEmpty(game.board, column)][column] = PieceOf(team)]

C3_Witness ==
    /\ resp.exit = "placed"
    /\ \E column \in PlayCols :
           /\ game.board[3][column] \in Players
           /\ game.board[2][column] \in Players
           /\ game.board[1][column] = "Empty"

(***************************************************************************)
(* C4 as claimed: an accepted drop that leaves a complete line of a piece  *)
(* sets winner to that piece, and in a game won that way every drop is     *)
(* rejected at the game-over guard.                                        *)
(***************************************************************************)
DropSetsWinner ==
    \A team \in Pieces, column \in PlayCols :
        LET r == day_12_place(game, team, column) IN
        r.status = 200 =>
            \A p \in Players : LineOf(r.game.board, p) => r.game.winner = p

C4_AsClaimed ==
    /\ DropSetsWinner
    /\ (\E p \in Players : LineOf(game.board, p)) =>
           \A team \in Pieces, column \in PlayCols :
               LET r == day_12_place(game, team, column) IN
               r.exit = "finished" /\ Rejected(r, game)

(***************************************************************************)
(* C4 amended: an accepted drop that leaves a complete line of a piece     *)
(* sets winner to that piece, and in a game won that way every drop is     *)
(* rejected with the game unchanged: at the column-full guard when the     *)
(* row-0 cell of its column is occupied, at the game-over guard otherwise. *)
(***************************************************************************)
C4_WinThenRejected ==
    /\ DropSetsWinner
    /\ (\E p \in Players : LineOf(game.board, p)) =>
           /\ game.winner \in Players /\ LineOf(game.board, game.winner)
           /\ \A team \in Pieces, column \in PlayCols :
                  LET r == day_12_place(game, team, column) IN
                  /\ Rejected(r, game)
                  /\ r.exit = IF TopOccupied(game, column) THEN "column_full" ELSE "finished"

\* a game won on the diagonal (0,1)..(3,4) by the last drop
C4_Witness ==
    /\ resp.exit = "placed"
    /\ \E p \in Players :
           /\ \A i \in PlayRows : game.board[i][i + 1] = p
           /\ game.winner = p
    /\ \E column \in PlayCols : ~TopOccupied(game, column)

(***************************************************************************)
(* C5: in every reachable state board_full is true exactly when every cell *)
(* of row 0, columns 1..4, is non-empty.                                   *)
(***************************************************************************)
C5_FullIffTopRowFilled ==
    game.board_full <=> \A j \in PlayCols : game.board[0][j] # "Empty"

(***************************************************************************)
(* C6: in every reachable state the cells of columns 0 and 5 and of row 4  *)
(* are Wall, and no cell of rows 0..3, columns 1..4 is Wall.               *)
(***************************************************************************)
C6_BorderFixed ==
    \A i \in Rows, j \in Cols :
        (game.board[i][j] = "Wall") <=> (i = 4 \/ j = 0 \/ j = 5)

C6_Witness ==
    /\ resp.exit = "random"
    /\ \A i \in PlayRows, j \in PlayCols : game.board[i][j] \in Players

(***************************************************************************)
(* C7: at most one task is inside a locked handler at any time and it is   *)
(* the holder of the lock; a task that starts its locked part, and anyone  *)
(* looking while the lock is free, sees the game that running the          *)
(* completed requests one after another gives (never a half-seeded grid or *)
(* a stale winner or board_full); and a handler about to return has done   *)
(* to that game exactly what it does when run on its own.                  *)
(***************************************************************************)
InLock(p) ==
    pc[p] \in {"guards", "put_cell", "check_win", "check_full", "loop", "reset", "print"}

AtLockedStart(p) ==
    \/ pc[p] \in {"guards", "reset"}
    \/ pc[p] = "loop" /\ cur[p] = 0
    \/ pc[p] = "print" /\ req[p][1] = "board"

C7_Serialized ==
    /\ \A p \in Tasks, q \in Tasks : (InLock(p) /\ InLock(q)) => p = q
    /\ \A p \in Tasks : InLock(p) => mutex = p
    /\ mutex = 0 => game = serial
    /\ \A p \in Tasks : AtLockedStart(p) => game = serial
    /\ \A p \in Tasks : pc[p] = "print" => game = Handle(serial, req[p]).game

\* one task has seeded part of the grid, the other waits for the lock
C7_Witness ==
    \E p \in Tasks, q \in Tasks :
        /\ pc[p] = "loop" /\ cur[p] \in 1..15
        /\ pc[q] = "wait"
        /\ game # serial

(***************************************************************************)
(* C8: under fair scheduling every task that waits for the game lock gets  *)
(* it and completes its request, and the lock is free whenever no task is  *)
(* inside a locked handler: every return, the two 503 returns of           *)
(* day_12_place included, releases it.                                     *)
(***************************************************************************)
C8_WaitersComplete ==
    /\ \A p \in Tasks : (pc[p] = "wait") ~> (pc[p] = "idle")
    /\ []((\A p \in Tasks : ~InLock(p)) => mutex = 0)

\* a task waits while the other is about to be rejected because the game is over
C8_Witness ==
    \E p \in Tasks, q \in Tasks :
        /\ pc[p] = "wait"
        /\ pc[q] = "guards"
        /\ ~is_column_full(game, req[q][3])
        /\ is_finished(game)

(***************************************************************************)
(* C9: a reset leaves exactly the initial state: the border cells Wall,    *)
(* the 16 playable cells Empty, no winner, board_full false and the        *)
(* generator at the start of its stream.                                   *)
(***************************************************************************)
InitialGame(g) ==
    /\ \A i \in Rows, j \in Cols :
           g.board[i][j] = IF i = 4 \/ j = 0 \/ j = 5 THEN "Wall" ELSE "Empty"
    /\ g.winner = NoWinner
    /\ g.board_full = FALSE
    /\ g.rng = 0

C9_ResetGivesInitialState ==
    /\ InitialGame(day_12_reset(game).game)
    /\ resp.exit = "reset" => (InitialGame(game) /\ game = GameNew)

C9_Witness == resp.exit = "reset" /\ cycle = "reset"

(***************************************************************************)
(* C10: a random-board request that comes right after a reset is answered  *)
(* with the same body every time: the body the first random-board request  *)
(* of a new process gets.                                                  *)
(***************************************************************************)
FirstRandomBody == Body(day_12_random_board(GameNew))

C10_ResetSeedDeterministic ==
    /\ Body(day_12_random_board(day_12_reset(game).game)) = FirstRandomBody
    /\ cycle = "seeded" => print_board(game) = FirstRandomBody

C10_Witness == cycle = "seeded" /\ resp.exit = "random"

(***************************************************************************)
(* C11: a random-board request writes every one of the 16 playable cells:  *)
(* cell (i, j) gets Cookie or Milk as the value drawn at position          *)
(* 4 * i + (j - 1) of the request says, rows 0..3 and columns 1..4 in      *)
(* row-major order.  The generator ends 16 values further and no playable  *)
(* cell is Empty, whatever the game was before and also when a winner is   *)
(* set before the last cell is written.                                    *)
(***************************************************************************)
C11_SeedWritesAllCells ==
    LET h == day_12_random_board(game).game IN
    /\ h.rng = game.rng + 16
    /\ \A i \in PlayRows, j \in PlayCols :
           /\ h.board[i][j] = DrawnCell(stream, game.rng, i, j)
           /\ h.board[i][j] \in Players
    /\ resp.exit = "random" =>
           /\ game.rng >= 16
           /\ \A i \in PlayRows, j \in PlayCols :
                  game.board[i][j] = DrawnCell(stream, game.rng - 16, i, j)

\* row 0 is a complete line: the winner was set after 4 of the 16 cells
C11_Witness ==
    /\ resp.exit = "random"
    /\ \E p \in Players : \A j \in PlayCols : game.board[0][j] = p
    /\ game.winner \in Players
    /\ \A i \in PlayRows, j \in PlayCols : game.board[i][j] \in Players

(***************************************************************************)
(* C12: no place request, accepted or rejected, moves the generator, and   *)
(* the cells a random-board request writes are the same after an accepted  *)
(* drop as without it; so the cells written by the k-th random-board       *)
(* request since the last reset are those of the k-th 16 values of the     *)
(* stream, whatever drops came in between.                                 *)
(***************************************************************************)
DropExits == {"bad_team", "bad_column", "column_full", "finished", "placed"}

SameCells(b1, b2) == \A i \in PlayRows, j \in PlayCols : b1[i][j] = b2[i][j]

DropLeavesGenerator ==
    LET seeded == day_12_random_board(game).game.board IN
    \A team \in TeamNames, column \in ColumnInputs :
        LET r == day_12_place(game, team, column) IN
        /\ r.game.rng = game.rng
        /\ r.status # 200 => r.game = game
        /\ r.status = 200 =>
               SameCells(day_12_random_board(r.game).game.board, seeded)

C12_DropsKeepGenerator ==
    /\ []DropLeavesGenerator
    /\ [][/\ resp'.exit \in DropExits => game'.rng = game.rng
          /\ resp'.exit = "random" =>
                 \A i \in PlayRows, j \in PlayCols :
                     game'.board[i][j] = DrawnCell(stream, 16 * SeedsDone(game), i, j)]_vars

\* the first random-board request since the reset, made after the drops that
\* set the winner: its cells have no complete line
C12_Witness ==
    /\ resp.exit = "random"
    /\ SeedsDone(game) = 1
    /\ game.winner \in Players
    /\ \A p \in Players : ~LineOf(game.board, p)

(***************************************************************************)
(* C13: a board request leaves the game as it is, and the output of        *)
(* print_board ends with "<piece> wins!" exactly when winner is set, also  *)
(* when board_full is true as well, with "No winner." exactly when         *)
(* board_full is true and winner is not set, and with the last row of the  *)
(* grid otherwise.                                                         *)
(***************************************************************************)
RenderStatus ==
    LET r == day_12_board(game)
        out == Body(r) IN
    /\ r.game = game
    /\ out = print_board(game)
    /\ Len(out) \in {5, 6}
    /\ \A i \in Rows, j \in Cols : out[i + 1][j + 1] = Glyph(game.board[i][j])
    /\ (game.winner # NoWinner) <=>
           (game.winner \in Players /\ StatusLine(out) = <<Glyph(game.winner), " wins!">>)
    /\ (game.board_full /\ game.winner = NoWinner) <=> (StatusLine(out) = <<"No winner.">>)
    /\ (~game.board_full /\ game.winner = NoWinner) <=> (Len(out) = 5)

C13_RenderStatusLine ==
    /\ []RenderStatus
    /\ [][resp'.exit = "board" => game' = game]_vars

\* a board request on a full board that has a winner
C13_Witness ==
    /\ resp.exit = "board"
    /\ game.board_full
    /\ game.winner \in Players

(***************************************************************************)
(* C14: a place request whose team is neither "cookie" nor "milk" or whose *)
(* column is outside 1..4 is answered 400 with an empty body and the game  *)
(* unchanged; the task serving it never waits for the game lock nor holds  *)
(* it, and its answer leaves the game and the lock as they are, also while *)
(* another task is inside a locked handler.                                *)
(***************************************************************************)
BadRequest(r) == r[1] = "place" /\ (r[2] \notin Pieces \/ r[3] \notin PlayCols)

BadRequestAnswer ==
    /\ \A team \in TeamNames, column \in ColumnInputs :
           (team \notin Pieces \/ column \notin PlayCols) =>
               LET r == day_12_place(game, team, column) IN
               r.status = 400 /\ r.game = game /\ Body(r) = <<>>
    /\ \A p \in Tasks : BadRequest(req[p]) => (pc[p] = "idle" /\ mutex # p)

C14_BadRequestBeforeLock ==
    /\ []BadRequestAnswer
    /\ [][\A p \in Tasks :
              (BadRequest(req'[p]) /\ served'[p] # served[p]) =>
                  /\ resp'.status = 400
                  /\ game' = game /\ mutex' = mutex /\ serial' = serial]_vars

\* a bad request was answered while the other task was seeding the board
C14_Witness ==
    \E p \in Tasks, q \in Tasks :
        /\ BadRequest(req[p]) /\ served[p] = 1
        /\ resp.status = 400
        /\ pc[q] = "loop" /\ cur[q] \in 1..15 /\ mutex = q

(***************************************************************************)
(* C15 as claimed: from the empty board, four drops of the same piece into *)
(* column 1 set winner to that piece with the fourth drop, and a fifth     *)
(* drop into column 1 is rejected at the game-over guard with the game     *)
(* unchanged.                                                              *)
(***************************************************************************)
\* the games after 0..4 drops of a piece into column 1 of the empty board
FourInColumn1 ==
    [team \in Pieces |->
        [n \in 0..4 |-> AfterDrops(GameNew, [k \in 1..n |-> <<team, 1>>])]]

FourthDropWins ==
    \A team \in Pieces :
        /\ \A n \in 0..3 : game = FourInColumn1[team][n] => game.winner = NoWinner
        /\ game = FourInColumn1[team][4] =>
               /\ game.winner = PieceOf(team)
               /\ \A i \in PlayRows : game.board[i][1] = PieceOf(team)

C15_AsClaimed ==
    /\ FourthDropWins
    /\ \A team \in Pieces :
           game = FourInColumn1[team][4] =>
               LET r == day_12_place(game, team, 1) IN
               r.exit = "finished" /\ Rejected(r, game)

(***************************************************************************)
(* C15 amended: from the empty board, four drops of the same piece into    *)
(* column 1 set winner to that piece with the fourth drop, and a fifth     *)
(* drop into column 1 is rejected at the column-full guard with the game   *)
(* unchanged.                                                              *)
(***************************************************************************)
C15_FifthDropColumnFull ==
    /\ FourthDropWins
    /\ \A team \in Pieces :
           game = FourInColumn1[team][4] =>
               LET r == day_12_place(game, team, 1) IN
               r.exit = "column_full" /\ Rejected(r, game)

\* the fifth drop has been answered
C15_Witness ==
    /\ game = FourInColumn1["cookie"][4]
    /\ resp.exit = "column_full"

(***************************************************************************)
(* C16 as claimed: from the empty board, filling column 1, then 2, then 3, *)
(* then 4 with cookie and milk dropped alternately leaves cookie, milk,    *)
(* cookie, milk (or the reverse) in row 0, board_full true and no winner,  *)
(* and no complete line after any of the drops.  The fills meant are the   *)
(* strictly alternating one and those whose row 0 alternates.              *)
(***************************************************************************)
\* the piece dropped first into each column
ColumnStarts == [PlayCols -> Pieces]

\* 16 place requests: four into each column in turn, alternating in each
ColumnFill(s) ==
    Alternating(s[1], 1) \o Alternating(s[2], 2)
        \o Alternating(s[3], 3) \o Alternating(s[4], 4)

\* the games after the first n requests of each fill
FillPath ==
    [s \in ColumnStarts |->
        [n \in 0..16 |-> AfterDrops(GameNew, SubSeq(ColumnFill(s), 1, n))]]

AllEqual(s) == \A j \in PlayCols : s[j] = s[1]

AcrossAlternating(s) == \A j \in 1..3 : s[j] # s[j + 1]

Row0Alternates(b) ==
    /\ \A j \in PlayCols : b[0][j] \in Players
    /\ \A j \in 1..3 : b[0][j] # b[0][j + 1]

NoLineOnTheWay(s) ==
    \A n \in 0..16, p \in Players : ~LineOf(FillPath[s][n].board, p)

Drawn(g) == g.board_full /\ g.winner = NoWinner

\* a board such a fill passes through, in whatever order its cells were
\* dropped: every column alternates and no column is begun before the one to
\* its left is full
ColumnFilled(b) ==
    /\ \A j \in 2..4 : b[3][j] # "Empty" => b[0][j - 1] # "Empty"
    /\ \A j \in PlayCols, i \in 0..2 : b[i][j] # "Empty" => b[i][j] # b[i + 1][j]

BottomsEqual(b) == \A j \in PlayCols : b[3][j] = b[3][1]

BottomsAlternate(b) == \A j \in 1..3 : b[3][j] # b[3][j + 1]

C16_AsClaimed ==
    \A s \in ColumnStarts :
        (AllEqual(s) \/ AcrossAlternating(s)) =>
            /\ Row0Alternates(FillPath[s][16].board)
            /\ NoLineOnTheWay(s)
            /\ Drawn(FillPath[s][16])
            /\ (/\ ColumnFilled(game.board)
                /\ game.board[3][4] # "Empty"
                /\ BottomsEqual(game.board) \/ BottomsAlternate(game.board)) =>
                   game.winner = NoWinner

(***************************************************************************)
(* C16 amended: from the empty board, filling column 1, then 2, then 3,    *)
(* then 4 with alternating pieces in each column never sets a winner with  *)
(* the first 12 drops.  When every column starts with the same piece (the  *)
(* two pieces alternate strictly) the 13th drop completes row 3; when the  *)
(* starting pieces alternate from column to column (row 0 would alternate) *)
(* the 13th drop completes the diagonal (0,1)..(3,4).  In both cases the   *)
(* winner is the piece of the 13th drop, the last three drops are rejected *)
(* at the game-over guard and board_full stays false.  For every other     *)
(* choice of starting pieces no line is completed and the fill ends with   *)
(* board_full true and no winner; row 0 does not alternate then.           *)
(***************************************************************************)
FillOutcome(s) ==
    LET end == FillPath[s][16] IN
    /\ \A n \in 0..12 : FillPath[s][n].winner = NoWinner /\ ~FillPath[s][n].board_full
    /\ (AllEqual(s) \/ AcrossAlternating(s)) =>
           /\ end = FillPath[s][13]
           /\ end.winner = PieceOf(s[4])
           /\ ~end.board_full
           /\ end.board[0][4] = "Empty"
           /\ \A n \in 14..16 :
                  day_12_place(FillPath[s][n - 1], ColumnFill(s)[n][1], 4).exit = "finished"
    /\ AllEqual(s) => \A j \in PlayCols : end.board[3][j] = PieceOf(s[4])
    /\ AcrossAlternating(s) => \A i \in PlayRows : end.board[i][i + 1] = PieceOf(s[4])
    /\ ~(AllEqual(s) \/ AcrossAlternating(s)) =>
           /\ NoLineOnTheWay(s)
           /\ Drawn(end)
           /\ \A j \in PlayCols : end.board[0][j] = PieceOf(OtherPiece(s[j]))
           /\ ~Row0Alternates(end.board)

FillOutcomes == \A s \in ColumnStarts : FillOutcome(s)

C16_ColumnFillOutcome ==
    /\ FillOutcomes
    /\ ColumnFilled(game.board) =>
           IF game.board[3][4] = "Empty"
           THEN game.winner = NoWinner /\ ~game.board_full
           ELSE IF BottomsEqual(game.board) \/ BottomsAlternate(game.board)
           THEN /\ game.winner = game.board[3][4]
                /\ game.board[0][4] = "Empty"
                /\ ~game.board_full
           ELSE /\ game.winner = NoWinner
                /\ game.board_full <=> game.board[0][4] # "Empty"
                /\ ~Row0Alternates(game.board)

\* the strictly alternating fill after its 13th drop: row 3 is complete
StrictFillEnd == FillPath[[j \in PlayCols |-> "cookie"]][16]

C16_Witness ==
    /\ resp.exit = "placed"
    /\ game.winner = "Cookie"
    /\ \A j \in PlayCols : game.board[3][j] = "Cookie"
    /\ PieceCount(game.board) = 13
    /\ game = StrictFillEnd

(***************************************************************************)
(* C17: a board reached from the empty board by accepted drops whose row 0 *)
(* is filled and which has no complete line has board_full true and no     *)
(* winner, and print_board ends with "No winner."; so has the game every   *)
(* accepted drop leaves that fills the last cell of row 0 without          *)
(* completing a line, and so has every column-by-column fill that          *)
(* completes no line.                                                      *)
(***************************************************************************)
TopRowFilled(g) == \A j \in PlayCols : TopOccupied(g, j)

NoLine(g) == \A p \in Players : ~LineOf(g.board, p)

DrawnAndRendered(g) == Drawn(g) /\ StatusLine(print_board(g)) = <<"No winner.">>

DrawnFills ==
    \A s \in ColumnStarts :
        ~(AllEqual(s) \/ AcrossAlternating(s)) =>
            /\ TopRowFilled(FillPath[s][16]) /\ NoLine(FillPath[s][16])
            /\ DrawnAndRendered(FillPath[s][16])

C17_DrawnWhenTopRowFilled ==
    /\ DrawnFills
    /\ (TopRowFilled(game) /\ NoLine(game)) => DrawnAndRendered(game)
    /\ \A team \in Pieces, column \in PlayCols :
           LET r == day_12_place(game, team, column) IN
           (r.status = 200 /\ TopRowFilled(r.game) /\ NoLine(r.game)) =>
               (DrawnAndRendered(r.game) /\ Body(r) = print_board(r.game))

C17_Witness ==
    /\ resp.exit = "placed"
    /\ TopRowFilled(game) /\ NoLine(game)
    /\ Drawn(game)

(***************************************************************************)
(* C18: a random-board request on a game just reset leaves as winner the   *)
(* piece of the first complete line of the grid it has written, the lines  *)
(* taken in the order rows 0..3, columns 1..4, the diagonal (0,1), (1,2),  *)
(* (2,3), (3,4), the diagonal (0,4), (1,3), (2,2), (3,1); and no winner    *)
(* when that grid has no complete line.                                    *)
(***************************************************************************)
LineOrder ==
    [n \in 1..10 |->
        IF n <= 4 THEN [k \in 1..4 |-> <<n - 1, k>>]
        ELSE IF n <= 8 THEN [k \in 1..4 |-> <<k - 1, n - 4>>]
        ELSE IF n = 9 THEN [k \in 1..4 |-> <<k - 1, k>>]
        ELSE [k \in 1..4 |-> <<k - 1, 5 - k>>]]

At(b, c) == b[c[1]][c[2]]

Complete(b, l) == At(b, l[1]) \in Players /\ \A k \in 2..4 : At(b, l[k]) = At(b, l[1])

FirstLineWinner(b) ==
    LET hits == {n \in 1..10 : Complete(b, LineOrder[n])} IN
    IF hits = {} THEN NoWinner ELSE At(b, LineOrder[SetMin(hits)][1])

C18_SeedWinnerIsFirstLine ==
    LET h == day_12_random_board(day_12_reset(game).game).game IN
    /\ h.winner = FirstLineWinner(h.board)
    /\ cycle = "seeded" => game.winner = FirstLineWinner(game.board)
    /\ FirstLineWinner(game.board) # NoWinner =>
           check_win(game).winner = FirstLineWinner(game.board)

\* both diagonals are complete; the one of milk was complete first, and the
\* winner is the one of cookie, which check_win looks at first
C18_Witness ==
    /\ cycle = "seeded" /\ resp.exit = "random"
    /\ Complete(game.board, LineOrder[9]) /\ Complete(game.board, LineOrder[10])
    /\ game.board[0][1] = "Cookie" /\ game.board[0][4] = "Milk"
    /\ game.winner = "Cookie"

(***************************************************************************)
(* C19: a random-board request on any game, used or finished, writes the   *)
(* 16 playable cells over what is there and clears nothing: a winner that  *)
(* was set is still set, to Cookie or Milk, and board_full is what it was. *)
(***************************************************************************)
SeedKeepsStatus ==
    LET h == day_12_random_board(game).game IN
    /\ game.winner # NoWinner => h.winner \in Players
    /\ h.board_full = game.board_full
    /\ \A i \in PlayRows, j \in PlayCols : h.board[i][j] = DrawnCell(stream, game.rng, i, j)

C19_SeedOverwritesInPlace ==
    /\ []SeedKeepsStatus
    /\ [][resp'.exit = "random" =>
              /\ game.winner # NoWinner => game'.winner \in Players
              /\ game'.board_full = game.board_full]_vars

\* a full board with a winner was seeded with a grid that has no line
C19_Witness ==
    /\ resp.exit = "random"
    /\ game.board_full
    /\ game.winner \in Players
    /\ NoLine(game)

(***************************************************************************)
(* C20: an accepted drop after which winner is set, when it was not set    *)
(* before, leaves as winner the piece dropped, and one of the ten lines    *)
(* holds that piece in all its cells and contains the cell the drop has    *)
(* filled.                                                                 *)
(***************************************************************************)
C20_WinnerIsDroppedPiece ==
    \A team \in Pieces, column \in PlayCols :
        LET r == day_12_place(game, team, column) IN
        (r.status = 200 /\ game.winner = NoWinner /\ r.game.winner # NoWinner) =>
            /\ r.game.winner = PieceOf(team)
            /\ \E L \in Lines :
                   /\ <<LowestEmpty(game.board, column), column>> \in L
                   /\ \A c \in L : r.game.board[c[1]][c[2]] = PieceOf(team)

\* the last drop completed the diagonal (0,4)..(3,1)
C20_Witness ==
    /\ resp.exit = "placed"
    /\ game.winner \in Players
    /\ \A i \in PlayRows : game.board[i][4 - i] = game.winner

(***************************************************************************)
(* C21: in every reachable state, when winner is set the board holds a     *)
(* complete row, column or diagonal of the winner's piece.                 *)
(***************************************************************************)
C21_WinnerHasLine ==
    game.winner # NoWinner => LineOf(game.board, game.winner)

(***************************************************************************)
(* C22: in every reachable state, and in the game every request leaves     *)
(* behind, winner is not set or is Cookie or Milk, never Wall or Empty;    *)
(* print_board never reaches its unreachable!() arm.                       *)
(***************************************************************************)
WinnerIsPlayer(g) ==
    /\ g.winner \in Players \cup {NoWinner}
    /\ print_board(g) # <<"unreachable">>

C22_WinnerIsPlayerOrNone ==
    /\ WinnerIsPlayer(game)
    /\ \A r \in Requests : WinnerIsPlayer(Handle(game, r).game)

\* a board request rendered a game with a winner
C22_Witness ==
    /\ resp.exit = "board"
    /\ game.winner \in Players
    /\ StatusLine(print_board(game)) = <<Glyph(game.winner), " wins!">>

(***************************************************************************)
(* C23: in every state the requests leave behind no playable column has an *)
(* Empty cell below a cell that is not Empty, so is_column_full, which     *)
(* looks at row 0 alone, is true exactly when the column has no Empty cell.*)
(***************************************************************************)
Stacked(g) ==
    \A j \in PlayCols, i \in 0..2 : g.board[i][j] # "Empty" => g.board[i + 1][j] # "Empty"

FullTestExact(g) ==
    \A j \in PlayCols :
        is_column_full(g, j) <=> \A i \in PlayRows : g.board[i][j] # "Empty"

C23_ColumnsStacked ==
    /\ Stacked(game) /\ FullTestExact(game)
    /\ \A r \in Requests :
           Stacked(Handle(game, r).game) /\ FullTestExact(Handle(game, r).game)

\* a column with two pieces below two Empty cells, next to an empty column
C23_Witness ==
    /\ resp.exit = "placed"
    /\ \E j \in PlayCols :
           /\ game.board[3][j] \in Players /\ game.board[2][j] \in Players
           /\ game.board[1][j] = "Empty" /\ game.board[0][j] = "Empty"
    /\ \E j \in PlayCols : game.board[3][j] = "Empty"

(***************************************************************************)
(* C24: once a random-board request has been served, every place request   *)
(* for a column 1..4 is answered 503 with the game unchanged until a reset *)
(* is served, also when the grid written has no complete line and neither  *)
(* winner nor board_full is set.  A random-board request has been served   *)
(* since the last reset exactly when 16 or more values have been drawn.    *)
(***************************************************************************)
Seeded(g) == g.rng >= 16

SeededRejectsDrops ==
    /\ Seeded(game) =>
           \A team \in Pieces, column \in PlayCols :
               Rejected(day_12_place(game, team, column), game)
    /\ \A team \in Pieces, column \in PlayCols :
           Rejected(day_12_place(day_12_random_board(game).game, team, column),
                    day_12_random_board(game).game)

C24_SeededRejectsDrops ==
    /\ []SeededRejectsDrops
    /\ [][/\ resp'.exit = "random" => Seeded(game')
          /\ (Seeded(game) /\ resp'.exit # "reset") => Seeded(game')
          /\ (Seeded(game) /\ resp'.exit \in DropExits \ {"bad_team", "bad_column"}) =>
                 (resp'.status = 503 /\ game' = game)]_vars

\* a drop was rejected on a seeded grid without a line, winner and
\* board_full not set
C24_Witness ==
    /\ Seeded(game)
    /\ resp.exit = "column_full"
    /\ NoLine(game)
    /\ game.winner = NoWinner /\ ~game.board_full

====
